---- MODULE Spec2Model ----
(***************************************************************************)
(* Model of the cloudcubes scheduler Lambda (scheduler/app.py).            *)
(*                                                                         *)
(* One process imports the module once (which captures current_time) and   *)
(* is then invoked repeatedly; every invocation of lambda_handler is one   *)
(* pass: scan the table, then update_server for every item in scan order.  *)
(* An exception raised anywhere in the handler propagates out of it, since *)
(* the handler contains no try/except.                                     *)
(*                                                                         *)
(* Times of day are minutes since midnight (the schedule strings carry no  *)
(* seconds).  Strings are tuples of one-character strings so that the      *)
(* "%H:%M" parse is computed, not assumed.                                 *)
(***************************************************************************)
EXTENDS Integers, Sequences, FiniteSets, TLC

VARIABLES
    table,         \* items of the DynamoDB table, in scan order
    clock,         \* wall-clock time of day, minutes since midnight
    current_time,  \* module-level global captured when the module is loaded
    pc,            \* position of the handler: idle, fetch, loop, done, raised
    data,          \* local `data` of lambda_handler
    idx,           \* position of the for loop in data (1-based)
    trace,         \* what update_server did for each item of this pass
    passStart,     \* wall-clock time at which the running pass was invoked
    error,         \* exception that ended the pass, or "none"
    response,      \* value returned by lambda_handler, or "none"
    scans,         \* number of table.scan calls made by the running pass
    started        \* Ids whose start_server call returned in an earlier pass

vars == <<table, clock, current_time, pc, data, idx, trace, passStart, error,
          response, scans, started>>

----------------------------------------------------------------------------
(* Bounds and input sets *)

MaxServers == 2

T0900 == <<"0", "9", ":", "0", "0">>
T1700 == <<"1", "7", ":", "0", "0">>
TBad  == <<"2", "5", ":", "0", "0">>

\* (Start-Time, Stop-Time) pairs: plain window, midnight-wrapping window,
\* degenerate window, unparsable start, unparsable stop
SchedulePairs ==
    { <<T0900, T1700>>, <<T1700, T0900>>, <<T0900, T0900>>,
      <<TBad, T1700>>, <<T0900, TBad>> }

\* 08:59, 09:00, 16:59, 17:00
ClockTimes == {539, 540, 1019, 1020}

ServerStates == {"Online", "Offline", "Unknown"}

----------------------------------------------------------------------------
(* Items as table.scan returns them (ProjectionExpression Id,Schedule,Server_State) *)

ScheduledItem(id, pair, st) ==
    [Id |-> id,
     Schedule |-> [M |-> [Start_Time |-> [S |-> pair[1]],
                          Stop_Time  |-> [S |-> pair[2]]]],
     Server_State |-> st]

UnscheduledItem(id, st) == [Id |-> id, Server_State |-> st]

ItemBodies ==
    { <<"sched", p, st>> : p \in SchedulePairs, st \in ServerStates }
      \cup { <<"nosched", <<>>, st>> : st \in ServerStates }

MkItem(id, b) ==
    IF b[1] = "sched" THEN ScheduledItem(id, b[2], b[3])
                      ELSE UnscheduledItem(id, b[3])

Tables ==
    UNION { { [i \in 1..n |-> MkItem(i, b[i])] : b \in [1..n -> ItemBodies] }
            : n \in 0..MaxServers }

----------------------------------------------------------------------------
(* datetime.strptime(s, "%H:%M").time()                                    *)
(* %H is the regex 2[0-3]|[0-1]\d|\d, %M is [0-5]\d|\d, separated by a     *)
(* literal colon; anything left over after the match is a ValueError.      *)

Digits == {"0", "1", "2", "3", "4", "5", "6", "7", "8", "9"}

DigitVal(c) ==
    CASE c = "0" -> 0 [] c = "1" -> 1 [] c = "2" -> 2 [] c = "3" -> 3
      [] c = "4" -> 4 [] c = "5" -> 5 [] c = "6" -> 6 [] c = "7" -> 7
      [] c = "8" -> 8 [] c = "9" -> 9

strptime(s) ==
    LET n    == Len(s)
        hLen == IF n >= 2 /\ s[2] = ":" THEN 1
                ELSE IF n >= 3 /\ s[3] = ":" THEN 2
                ELSE 0
        mLen == n - hLen - 1
        hOk  == \/ hLen = 1 /\ s[1] \in Digits
                \/ hLen = 2 /\ \/ s[1] = "2" /\ s[2] \in {"0", "1", "2", "3"}
                               \/ s[1] \in {"0", "1"} /\ s[2] \in Digits
        mOk  == \/ mLen = 1 /\ s[hLen + 2] \in Digits
                \/ mLen = 2 /\ s[hLen + 2] \in {"0", "1", "2", "3", "4", "5"}
                            /\ s[hLen + 3] \in Digits
        hour == IF hLen = 1 THEN DigitVal(s[1])
                ELSE 10 * DigitVal(s[1]) + DigitVal(s[2])
        minute == IF mLen = 1 THEN DigitVal(s[hLen + 2])
                  ELSE 10 * DigitVal(s[hLen + 2]) + DigitVal(s[hLen + 3])
    IN  IF hOk /\ mOk
        THEN [ok |-> TRUE, time |-> 60 * hour + minute]
        ELSE [ok |-> FALSE, time |-> 0]

----------------------------------------------------------------------------
(* update_server and what it calls *)

\* is_server_online evaluates the expression False and falls off the end:
\* it returns None, which is falsy, whatever the item says
is_server_online(server) == FALSE

\* should_be_online as update_server computes it
should_be_online(now, start_time, stop_time) ==
    LET stop_after_start == stop_time > start_time
    IN  IF stop_after_start
        THEN now > start_time /\ now < stop_time
        ELSE now > start_time \/ now < stop_time

NoEntry(server) ==
    [Id |-> server.Id, scheduled |-> FALSE, evaluated |-> FALSE,
     now |-> 0, start |-> 0, stop |-> 0, desired |-> FALSE,
     observed |-> server.Server_State, action |-> "NoOp", calls |-> <<>>,
     raised |-> "none"]

\* Variant of the if/elif in which stop_server has slipped out of the elif
\* and is called after the if, whatever was decided
reconcile_stop_dedented(online, server_online) ==
    (IF online /\ ~ server_online THEN <<"Start">> ELSE <<>>) \o <<"Stop">>

\* the if/elif that ends update_server: the dispatcher calls it makes, in
\* order (start_server is "Start", stop_server is "Stop")
reconcile(online, server_online) ==
    IF online /\ ~ server_online THEN <<"Start">>
    ELSE IF server_online /\ ~ online THEN <<"Stop">>
    ELSE <<>>

\* update_server past its early return (the item has a Schedule), run with
\* the global current_time equal to now; accepted says whether the call made
\* by start_server/stop_server returns (TRUE) or raises (FALSE).  The result
\* is the record of what happened.
update_scheduled(server, now, accepted) ==
    LET start_p == strptime(server.Schedule.M.Start_Time.S)
        stop_p  == strptime(server.Schedule.M.Stop_Time.S)
    IN  IF ~ start_p.ok \/ ~ stop_p.ok
        THEN [NoEntry(server) EXCEPT !.scheduled = TRUE, !.raised = "ValueError"]
        ELSE
          LET online == should_be_online(now, start_p.time, stop_p.time)
              server_online == is_server_online(server)
              due == reconcile(online, server_online)
              \* a call that raises ends update_server: later calls are not made
              calls == IF accepted \/ due = <<>> THEN due ELSE <<due[1]>>
              action == IF calls = <<>> THEN "NoOp" ELSE calls[1]
          IN  [Id |-> server.Id, scheduled |-> TRUE, evaluated |-> TRUE,
               now |-> now, start |-> start_p.time, stop |-> stop_p.time,
               desired |-> online, observed |-> server.Server_State,
               action |-> action, calls |-> calls,
               raised |-> IF action # "NoOp" /\ ~ accepted
                          THEN "DispatchFailed" ELSE "none"]

\* Variant of update_server without the early return: an item that carries
\* no Schedule is treated as one that should always be online.
update_server_no_skip(server, now, accepted) ==
    IF ~ ("Schedule" \in DOMAIN server)
    THEN [NoEntry(server) EXCEPT !.evaluated = TRUE, !.desired = TRUE,
                                 !.action = "Start", !.calls = <<"Start">>,
                                 !.raised = IF accepted THEN "none"
                                            ELSE "DispatchFailed"]
    ELSE update_scheduled(server, now, accepted)

\* update_server(server)
update_server(server, now, accepted) ==
    IF ~ ("Schedule" \in DOMAIN server)
    THEN NoEntry(server)
    ELSE update_scheduled(server, now, accepted)

----------------------------------------------------------------------------
(* The process *)

Init ==
    /\ table \in Tables
    /\ clock \in ClockTimes
    /\ current_time = clock
    /\ pc = "idle"
    /\ data = <<>>
    /\ idx = 1
    /\ trace = <<>>
    /\ passStart = clock
    /\ error = "none"
    /\ response = "none"
    /\ scans = 0
    /\ started = {}

\* the wall clock moves on between invocations
Tick ==
    /\ pc \in {"idle", "done", "raised"}
    /\ \E t \in ClockTimes \ {clock} : clock' = t
    /\ UNCHANGED <<table, current_time, pc, data, idx, trace, passStart, error, response,
                   scans, started>>

\* the trigger invokes lambda_handler: a new pass begins
Invoke ==
    /\ pc \in {"idle", "done", "raised"}
    /\ pc' = "fetch"
    /\ data' = <<>>
    /\ idx' = 1
    /\ trace' = <<>>
    /\ passStart' = clock
    /\ error' = "none"
    /\ response' = "none"
    /\ scans' = 0
    /\ started' = started \cup { trace[i].Id : i \in { j \in 1..Len(trace) :
                                     /\ trace[j].action = "Start"
                                     /\ trace[j].raised = "none" } }
    /\ UNCHANGED <<table, clock, current_time>>

\* _get_table and _get_server_data return the items
get_server_data ==
    /\ pc = "fetch"
    /\ data' = table
    /\ pc' = "loop"
    /\ scans' = scans + 1
    /\ UNCHANGED <<table, clock, current_time, idx, trace, passStart, error,
                   response, started>>

\* Variant of the failing scan in which the failure is swallowed: the error
\* is noted but the loop still runs over the items
get_server_data_swallows ==
    /\ pc = "fetch"
    /\ error' = "ScanError"
    /\ data' = table
    /\ pc' = "loop"
    /\ scans' = scans + 1
    /\ UNCHANGED <<table, clock, current_time, idx, trace, passStart, response,
                   started>>

\* table.scan raises: nothing catches it, the handler ends with the error
get_server_data_raises ==
    /\ pc = "fetch"
    /\ error' = "ScanError"
    /\ pc' = "raised"
    /\ scans' = scans + 1
    /\ UNCHANGED <<table, clock, current_time, data, idx, trace, passStart,
                   response, started>>

\* Variant of the loop body in which an accepted Start is followed by a
\* put_item that rewrites the whole item with only Id and Server_State
loop_update_server_put_item ==
    /\ pc = "loop"
    /\ idx <= Len(data)
    /\ \E accepted \in BOOLEAN :
         LET e == update_server(data[idx], current_time, accepted)
         IN  /\ trace' = Append(trace, e)
             /\ IF e.raised = "none"
                THEN /\ idx' = idx + 1
                     /\ UNCHANGED <<pc, error>>
                ELSE /\ pc' = "raised"
                     /\ error' = e.raised
                     /\ UNCHANGED idx
             /\ table' = IF e.action = "Start" /\ e.raised = "none"
                         THEN [table EXCEPT ![idx] =
                                 [Id |-> e.Id, Server_State |-> "Online"]]
                         ELSE table
    /\ UNCHANGED <<clock, current_time, data, passStart, response, scans, started>>

\* one iteration of `for server in data: update_server(server)`
loop_update_server ==
    /\ pc = "loop"
    /\ idx <= Len(data)
    /\ \E accepted \in BOOLEAN :
         LET e == update_server(data[idx], current_time, accepted)
         IN  /\ trace' = Append(trace, e)
             /\ IF e.raised = "none"
                THEN /\ idx' = idx + 1
                     /\ UNCHANGED <<pc, error>>
                ELSE /\ pc' = "raised"
                     /\ error' = e.raised
                     /\ UNCHANGED idx
    /\ UNCHANGED <<table, clock, current_time, data, passStart, response,
                   scans, started>>

\* Variant of the return that leaves the loop one item early
return_response_early ==
    /\ pc = "loop"
    /\ idx >= Len(data)
    /\ pc' = "done"
    /\ response' = [statusCode |-> 200, body |-> [message |-> "hello world"]]
    /\ UNCHANGED <<table, clock, current_time, data, idx, trace, passStart, error,
                   scans, started>>

\* the loop is exhausted: return statusCode 200 and the fixed body
return_response ==
    /\ pc = "loop"
    /\ idx > Len(data)
    /\ pc' = "done"
    /\ response' = [statusCode |-> 200, body |-> [message |-> "hello world"]]
    /\ UNCHANGED <<table, clock, current_time, data, idx, trace, passStart, error,
                   scans, started>>

Next ==
    \/ Tick
    \/ Invoke
    \/ get_server_data
    \/ get_server_data_raises
    \/ loop_update_server
    \/ return_response

Spec == Init /\ [][Next]_vars

\* the steps of a running handler; the runtime keeps executing an invoked
\* handler, so they are taken fairly
PassStep ==
    \/ get_server_data
    \/ get_server_data_raises
    \/ loop_update_server
    \/ return_response

FairSpec == Spec /\ WF_vars(PassStep)

----------------------------------------------------------------------------
(* Helpers for stating properties *)

PassOver == pc \in {"done", "raised"}

Entries == { trace[i] : i \in 1..Len(trace) }

Dispatches == { e \in Entries : e.action # "NoOp" }

TypeOK ==
    /\ table \in Tables
    /\ clock \in ClockTimes
    /\ current_time \in ClockTimes
    /\ pc \in {"idle", "fetch", "loop", "done", "raised"}
    /\ idx \in 1..(MaxServers + 1)
    /\ Len(trace) <= Len(data)
    /\ error \in {"none", "ScanError", "ValueError", "DispatchFailed"}

----------------------------------------------------------------------------
(* Properties *)

\* C1: for a non-wrapping window (stop > start) the should-be-online result
\* is true exactly when start <= now < stop (true at now = start, false at
\* now = stop).
C1_NonWrappingInclusiveStart ==
    \A e \in Entries :
        (e.evaluated /\ e.stop > e.start)
            => (e.desired <=> (e.start <= e.now /\ e.now < e.stop))

\* C2: for a midnight-wrapping window (stop < start) the should-be-online
\* result is true exactly when now >= start or now < stop.
C2_WrappingInclusiveStart ==
    \A e \in Entries :
        (e.evaluated /\ e.stop < e.start)
            => (e.desired <=> (e.now >= e.start \/ e.now < e.stop))

\* C3: for a degenerate window (start = stop) the should-be-online result is
\* true for every time of day, including now = start.
C3_DegenerateAlwaysOnline ==
    \A e \in Entries :
        (e.evaluated /\ e.stop = e.start) => e.desired

\* C4: when the desired state is online, Start is issued exactly when the
\* observed state is Offline or Unknown, and nothing is issued when it is
\* Online.
C4_StartOnlyWhenNotOnline ==
    \A e \in Entries :
        (e.evaluated /\ e.desired)
            => /\ e.action = "Start" <=> e.observed \in {"Offline", "Unknown"}
               /\ e.observed = "Online" => e.action = "NoOp"

\* C5: when the desired state is offline, Stop is issued exactly when the
\* observed state is Online, and nothing is issued when it is Offline or
\* Unknown.
C5_StopOnlyWhenOnline ==
    \A e \in Entries :
        (e.evaluated /\ ~ e.desired)
            => /\ e.action = "Stop" <=> e.observed = "Online"
               /\ e.observed \in {"Offline", "Unknown"} => e.action = "NoOp"

\* C6: an item without a schedule gets neither Start nor Stop in a pass,
\* whatever the time and its observed state, and the evaluator is not run
\* for it.
C6_UnscheduledIsSkipped ==
    \A i \in 1..Len(trace) :
        ~ ("Schedule" \in DOMAIN data[i])
            => /\ trace[i].Id = data[i].Id
               /\ trace[i].action = "NoOp"
               /\ ~ trace[i].evaluated
               /\ trace[i].raised = "none"

\* C6 witness: a pass has processed an unscheduled item whose observed state
\* is Online, at a time other than the one captured at module load, and has
\* gone past it.
C6_Witness ==
    \E i \in 1..Len(trace) :
        /\ ~ ("Schedule" \in DOMAIN data[i])
        /\ data[i].Server_State = "Online"
        /\ passStart # current_time
        /\ idx > i

C8_MalformedScheduleIsolated ==
    (PassOver /\ \E e \in Entries : e.raised = "ValueError")
        => /\ Len(trace) = Len(data)
           /\ pc = "done"

\* C9: if the directory read of a pass fails, the pass aborts with the error
\* and no Start or Stop is dispatched for any server in that pass.
C9_ScanFailureAbortsPass ==
    error = "ScanError"
        => /\ pc = "raised"
           /\ Dispatches = {}
           /\ trace = <<>>
           /\ response = "none"

\* C9 witness: the scan has failed in a pass over a table that holds an item
\* due for a Start, so a dispatch would have followed had the pass gone on.
C9_Witness ==
    /\ error = "ScanError"
    /\ pc = "raised"
    /\ \E i \in 1..Len(table) :
          update_server(table[i], current_time, TRUE).action = "Start"

\* C10: in every pass the time of day used by the evaluator is the wall-clock
\* time at the start of that pass, never a value captured earlier.
C10_EvaluatorUsesPassStartTime ==
    \A e \in Entries : e.evaluated => e.now = passStart

\* C11: once a server's Start has been accepted and its observed state is
\* Online, a later pass run while the time is still inside the server's
\* window yields NoOp for it: no second Start is dispatched.
C11_NoSecondStart ==
    \A e \in Entries :
        (e.Id \in started /\ e.observed = "Online" /\ e.evaluated /\ e.desired)
            => e.action = "NoOp"

\* C12: after an accepted Start the record's observed state is written to
\* Online, and after an accepted Stop it is written to Offline.
C12_ObservedStateWritten ==
    \A e \in Entries :
        (idx > e.Id /\ e.raised = "none")
            => /\ e.action = "Start" => table[e.Id].Server_State = "Online"
               /\ e.action = "Stop" => table[e.Id].Server_State = "Offline"

\* C13: the result of a completed pass is a summary whose counts of Started,
\* Stopped, NoOp and Failed equal the number of records with each outcome
\* and add up to the number of records fetched.
C13_PassSummaryCounts ==
    pc = "done"
        => /\ {"Started", "Stopped", "NoOp", "Failed"} \subseteq DOMAIN response.body
           /\ response.body.Started =
                Cardinality({ e \in Entries : e.action = "Start" /\ e.raised = "none" })
           /\ response.body.Stopped =
                Cardinality({ e \in Entries : e.action = "Stop" /\ e.raised = "none" })
           /\ response.body.NoOp =
                Cardinality({ e \in Entries : e.action = "NoOp" /\ e.raised = "none" })
           /\ response.body.Failed =
                Cardinality({ e \in Entries : e.raised # "none" })
           /\ response.body.Started + response.body.Stopped
                + response.body.NoOp + response.body.Failed = Len(data)

\* C14: for every record of a pass at most one dispatcher call is made:
\* Start and Stop are never both dispatched for the same record.
C14_AtMostOneAction ==
    \A e \in Entries :
        /\ Len(e.calls) <= 1
        /\ ~ (\E i, j \in 1..Len(e.calls) : e.calls[i] = "Start" /\ e.calls[j] = "Stop")

\* C14 witness: a pass has dispatched a Start for an evaluated record and
\* has moved on to the next record.
C14_Witness ==
    \E i \in 1..Len(trace) :
        trace[i].evaluated /\ trace[i].calls = <<"Start">> /\ idx > i

\* C15: a pass reads the directory exactly once and processes every record
\* returned by that read exactly once, in a pass that completes: none is
\* evaluated twice and none is left out.
C15_EachRecordOnce ==
    /\ scans <= 1
    /\ Len(trace) <= Len(data)
    /\ \A i \in 1..Len(trace) : trace[i].Id = data[i].Id
    /\ \A i, j \in 1..Len(trace) : trace[i].Id = trace[j].Id => i = j
    /\ pc \in {"loop", "done"} => scans = 1
    /\ pc = "done" => Len(trace) = Len(data)

\* C15 witness: a pass over the largest table has completed.
C15_Witness ==
    pc = "done" /\ Len(data) = MaxServers /\ Len(trace) = MaxServers

\* the part of the store the core must leave alone: the ids and the schedules
IdsAndSchedules(t) ==
    [i \in DOMAIN t |->
        <<t[i].Id, IF "Schedule" \in DOMAIN t[i] THEN <<t[i].Schedule>> ELSE <<>>>>]

\* C16: no step of any pass changes the set of record ids in the store or
\* any record's schedule.
C16_StoreFrame ==
    [][IdsAndSchedules(table') = IdsAndSchedules(table)]_vars

\* C16 witness: a second or later pass has completed after an earlier pass
\* had a Start accepted, over a table that holds a scheduled record.
C16_Witness ==
    /\ pc = "done"
    /\ started # {}
    /\ \E e \in Entries : e.action = "Start" /\ e.raised = "none"
    /\ \E i \in 1..Len(table) : "Schedule" \in DOMAIN table[i]

\* C17: a pass goes Fetching -> Evaluating -> Dispatching -> Done, or Failed
\* from Fetching on a directory error; a dispatch error on one server does
\* not put the pass in Failed, and nothing is dispatched before the
\* directory read has returned.
C17_FailedOnlyFromFetching ==
    /\ pc = "raised" => error = "ScanError"
    /\ (\E e \in Entries : e.raised = "DispatchFailed") => pc # "raised"
    /\ Dispatches # {} => scans = 1
    /\ pc = "fetch" => trace = <<>>

\* Termination part of C17, taken alone: under FairSpec every invoked pass
\* ends, by returning or by raising.
PassTerminates == (pc = "fetch") ~> PassOver

====
